---- MODULE Spec2Model ----
(***************************************************************************)
(* Model of makeCVExl.py: a CSV export of scan findings is written to a    *)
(* report document (write_to_excel), the CVE identifiers in the report are *)
(* fetched into an on-disk cache by a pool of worker threads (getCVEInfo), *)
(* and the cached records are merged into the report                       *)
(* (update_excel_with_cve_info).  The program is run repeatedly over the   *)
(* same working directory, so the cache and the report persist.            *)
(*                                                                         *)
(* Text is a sequence of one-character strings; a blank cell (Python None) *)
(* is the value None below.                                                *)
(***************************************************************************)
EXTENDS Naturals, Sequences, FiniteSets

VARIABLES
    csv,        \* rows of the export file csv/scan.csv
    cache,      \* the cache directory: identifier -> content of <id>.json
    disk,       \* the saved document scan_result.xlsx
    tasks,      \* the futures submitted to the pool, one per data row
    pcMain,     \* where the main thread is: "idle" or "fetch"
    runs,       \* completed runs of process_csv_file
    outcome,    \* how the last merge ended: "none", "saved", "aborted"
    prev        \* history: the document and cache the previous run left, kept
                \* while the run in progress repeats that run on a full cache

vars == <<csv, cache, disk, tasks, pcMain, runs, outcome, prev>>

\* ------------------------------------------------------------------ bounds
MaxRuns == 2
MaxCsvRows == 2

\* --------------------------------------------------------------- constants
max_attempts == 3
max_workers == 5

\* -------------------------------------------------------------------- text
None == <<"None">>
NA == <<"N", "/", "A">>

Digit(d) ==
    CASE d = 0 -> "0" [] d = 1 -> "1" [] d = 2 -> "2" [] d = 3 -> "3"
      [] d = 4 -> "4" [] d = 5 -> "5" [] d = 6 -> "6" [] d = 7 -> "7"
      [] d = 8 -> "8" [] d = 9 -> "9"

RECURSIVE IntText(_)
IntText(n) == IF n < 10 THEN <<Digit(n)>> ELSE IntText(n \div 10) \o <<Digit(n % 10)>>

\* str() of a JSON number with one decimal, held in tenths: 98 -> "9.8"
Str(tenths) == IntText(tenths \div 10) \o <<".">> \o <<Digit(tenths % 10)>>

StartsWith(s, p) == Len(s) >= Len(p) /\ SubSeq(s, 1, Len(p)) = p

\* s.replace(old, ""): every non-overlapping occurrence, left to right
RECURSIVE Replace(_, _)
Replace(s, old) ==
    IF s = <<>> THEN <<>>
    ELSE IF StartsWith(s, old) THEN Replace(SubSeq(s, Len(old) + 1, Len(s)), old)
    ELSE <<Head(s)>> \o Replace(Tail(s), old)

\* --------------------------------------------------------------- the schema
Labels == <<"V20", "V30", "V31", "V40">>
LabelSet == {Labels[i] : i \in 1..Len(Labels)}

cvss_key(label) ==
    CASE label = "V20" -> "cvssMetricV2"
      [] label = "V30" -> "cvssMetricV30"
      [] label = "V31" -> "cvssMetricV31"
      [] label = "V40" -> "cvssMetricV40"

\* the label as text, as interpolated into an f-string
LabelText(label) ==
    CASE label = "V20" -> <<"V", "2", "0">>
      [] label = "V30" -> <<"V", "3", "0">>
      [] label = "V31" -> <<"V", "3", "1">>
      [] label = "V40" -> <<"V", "4", "0">>

\* f"CVSS:{cvss_label}/"
Prefix(label) == <<"C", "V", "S", "S", ":">> \o LabelText(label) \o <<"/">>

\* ------------------------------------------------------- the lookup service
CVEIDs == {"CVE-A", "CVE-B"}

CWE79 == <<"C", "W", "E", "-", "7", "9">>
Vec31 == <<"C", "V", "S", "S", ":", "3", ".", "1", "/", "A", "V", ":", "N">>

Weak(text) == <<[description |-> <<[value |-> text]>>]>>
Metric(score, vector) == <<[cvssData |-> [baseScore |-> score, vectorString |-> vector]]>>
NoMetrics == [k \in {} |-> <<>>]

\* response bodies the service may send; InvalidBody is not JSON
JsonNoVulns == [vulnerabilities |-> <<>>]
JsonNoScores == [vulnerabilities |-> <<[cve |-> [metrics |-> NoMetrics]]>>]
JsonV31 == [vulnerabilities |->
    <<[cve |-> [weaknesses |-> Weak(CWE79),
                metrics |-> [k \in {"cvssMetricV31"} |-> Metric(100, Vec31)]]]>>]
JsonBadWeak == [vulnerabilities |->
    <<[cve |-> [weaknesses |-> <<>>, metrics |-> NoMetrics]]>>]

JsonBodies == {JsonNoVulns, JsonNoScores, JsonV31, JsonBadWeak}
InvalidBody == <<>>
Bodies == {<<j>> : j \in JsonBodies} \cup {InvalidBody}

\* ---------------------------------------------------------- the export file
CsvRows ==
    { [PluginID |-> "100", Risk |-> "High", Name |-> "X", CVE |-> "CVE-A"],
      [PluginID |-> "200", Risk |-> "Low", Name |-> "Y", CVE |-> "CVE-A"],
      [PluginID |-> "300", Risk |-> "Medium", Name |-> "Z", CVE |-> "CVE-B"],
      [PluginID |-> "400", Risk |-> "None", Name |-> "W", CVE |-> ""] }

CsvFiles == UNION {[1..n -> CsvRows] : n \in 0..MaxCsvRows}

\* d[key] = value on an insertion-ordered dict held as a sequence of items
DictPut(d, k, v) ==
    IF \E i \in 1..Len(d) : d[i].key = k
    THEN [i \in 1..Len(d) |-> IF d[i].key = k THEN [key |-> k, value |-> v] ELSE d[i]]
    ELSE Append(d, [key |-> k, value |-> v])

\* {row['CVE']: row for row in reader if row['CVE']}
RECURSIVE DictOfRows(_, _)
DictOfRows(rows, d) ==
    IF rows = <<>> THEN d
    ELSE DictOfRows(Tail(rows),
                    IF Head(rows).CVE # "" THEN DictPut(d, Head(rows).CVE, Head(rows)) ELSE d)

cvedict(file) == DictOfRows(file, <<>>)

\* ------------------------------------------------------------- the document
NoDoc == [exists |-> FALSE, rows |-> <<>>]

BlankRow ==
    [PluginID |-> "", Risk |-> "", Name |-> "", CVE |-> "", CWE |-> None,
     BS |-> [l \in LabelSet |-> None], Vector |-> [l \in LabelSet |-> None],
     fill |-> FALSE]

Max(a, b) == IF a >= b THEN a ELSE b

\* an append-only variant: the new rows follow the rows already in the sheet
write_to_excel_append(doc, dict) ==
    [exists |-> TRUE,
     rows |-> (IF doc.exists THEN doc.rows ELSE <<>>) \o
              [i \in 1..Len(dict) |->
                  [BlankRow EXCEPT !.PluginID = dict[i].value.PluginID,
                                   !.Risk = dict[i].value.Risk,
                                   !.Name = dict[i].value.Name,
                                   !.CVE = dict[i].key]]]

\* the document saved by write_to_excel: the i-th item of the dict goes to
\* data row i (sheet row i + 1), columns 1..4; everything else is kept
write_to_excel(doc, dict) ==
    LET old == IF doc.exists THEN doc.rows ELSE <<>>
        n == Max(Len(old), Len(dict))
    IN [exists |-> TRUE,
        rows |-> [i \in 1..n |->
            LET base == IF i <= Len(old) THEN old[i] ELSE BlankRow
            IN IF i <= Len(dict)
               THEN [base EXCEPT !.PluginID = dict[i].value.PluginID,
                                 !.Risk = dict[i].value.Risk,
                                 !.Name = dict[i].value.Name,
                                 !.CVE = dict[i].key]
               ELSE base]]

\* [row[COLUMN_INDEXES['CVE'] - 1].value for row in ws.iter_rows(min_row=2)]
cve_ids(rows) == [i \in 1..Len(rows) |-> rows[i].CVE]

\* ------------------------------------------------------------------ merging
\* d.get(k, default)
Get(d, k, default) == IF k \in DOMAIN d THEN d[k] ELSE default

\* os.path.isfile(os.path.join(CACHE_PATH, f"{id}.json"))
isfile(files, id) == id \in DOMAIN files

\* json.load raises JSONDecodeError: the file holds no JSON value
Undecodable(content) == content = <<>>

\* the scores collected for one record: "N/A" unless the version is present
CVSSScores(cvss_dicts) ==
    [BS |-> [l \in LabelSet |->
                IF cvss_key(l) \in DOMAIN cvss_dicts
                THEN Str(cvss_dicts[cvss_key(l)][1].cvssData.baseScore)
                ELSE NA],
     Vector |-> [l \in LabelSet |->
                IF cvss_key(l) \in DOMAIN cvss_dicts
                THEN Replace(cvss_dicts[cvss_key(l)][1].cvssData.vectorString, Prefix(l))
                ELSE NA]]

\* indexing the record raises IndexError: an exception the row's handler,
\* except (json.JSONDecodeError, IOError), does not catch
Raises(cve_info) ==
    \/ /\ "weaknesses" \in DOMAIN cve_info
       /\ \/ cve_info.weaknesses = <<>>
          \/ cve_info.weaknesses[1].description = <<>>
    \/ \E k \in DOMAIN Get(cve_info, "metrics", NoMetrics) :
           Get(cve_info, "metrics", NoMetrics)[k] = <<>>

\* the row is one the loop body skips with `continue` or in its handler
Skipped(row, files) ==
    \/ ~isfile(files, row.CVE)
    \/ Undecodable(files[row.CVE])
    \/ Get(files[row.CVE][1], "vulnerabilities", <<>>) = <<>>

\* one iteration of the loop over ws.iter_rows(min_row=2) that does not raise
MergeRow(row, files) ==
    IF Skipped(row, files) THEN row
    ELSE LET cve_info == Get(files[row.CVE][1].vulnerabilities[1], "cve", NoMetrics)
             cvss_dicts == Get(cve_info, "metrics", NoMetrics)
             scores == CVSSScores(cvss_dicts)
         IN [row EXCEPT
               !.CWE = IF "weaknesses" \in DOMAIN cve_info
                       THEN cve_info.weaknesses[1].description[1].value
                       ELSE @,
               !.BS = [l \in LabelSet |->
                          IF cvss_key(l) \in DOMAIN cvss_dicts THEN scores.BS[l] ELSE @[l]],
               !.Vector = [l \in LabelSet |->
                          IF cvss_key(l) \in DOMAIN cvss_dicts THEN scores.Vector[l] ELSE @[l]],
               !.fill = IF \A l \in LabelSet : scores.BS[l] = NA THEN TRUE ELSE @]

RowRaises(row, files) ==
    /\ ~Skipped(row, files)
    /\ Raises(Get(files[row.CVE][1].vulnerabilities[1], "cve", NoMetrics))

\* the loop from row i on: the rows as merged, and whether an exception left
\* the loop before the last row
RECURSIVE MergeFrom(_, _, _)
MergeFrom(rows, i, files) ==
    IF i > Len(rows) THEN [rows |-> rows, raised |-> FALSE]
    ELSE IF RowRaises(rows[i], files) THEN [rows |-> rows, raised |-> TRUE]
    ELSE MergeFrom([rows EXCEPT ![i] = MergeRow(rows[i], files)], i + 1, files)

\* ---------------------------------------------------------------- the tasks
NewTask(id) ==
    [cve |-> id, pc |-> "queued", attempt |-> 0,
     requests |-> 0,        \* history: requests.get calls made
     existed |-> FALSE,     \* history: the cache file existed when checked
     onlyErr |-> TRUE,      \* history: every request so far failed
     wrote |-> FALSE,       \* history: the task opened the cache file for writing
     result |-> "pending"]

Running == {t \in 1..Len(tasks) : tasks[t].pc \notin {"queued", "done"}}

\* a variant that leaves the pool without waiting for the workers
SomeFetchResolved == tasks = <<>> \/ \E t \in 1..Len(tasks) : tasks[t].pc = "done"

\* leaving the `with ThreadPoolExecutor` block: every future is done
AllFetchesResolved == \A t \in 1..Len(tasks) : tasks[t].pc = "done"

\* a variant that never finds the file
CacheMiss(files, id) == FALSE

\* `if not os.path.isfile(filename)` in getCVEInfo
CacheHit(files, id) == isfile(files, id)

\* a variant with an off-by-one retry limit
MayRetryOffByOne(attempt) == attempt <= max_attempts

\* `while attempt < max_attempts`
MayRetry(attempt) == attempt < max_attempts

\* the handler of requests.RequestException: count the attempt, then retry
\* after the pause or give up
Failed(task) ==
    [task EXCEPT !.attempt = @ + 1,
                 !.pc = IF MayRetry(task.attempt + 1) THEN "request" ELSE "done",
                 !.result = IF MayRetry(task.attempt + 1) THEN @ ELSE "gaveup"]

NoPrev == [rerun |-> FALSE, cache |-> [id \in {} |-> <<>>], disk |-> NoDoc]

\* the run about to start repeats the previous one: the same export, and a
\* cache file for every identifier in the document
Rerun(file) ==
    /\ runs > 0
    /\ file = csv
    /\ \A i \in 1..Len(disk.rows) : disk.rows[i].CVE \in DOMAIN cache

Init ==
    /\ csv = <<>>
    /\ cache = [id \in {} |-> <<>>]
    /\ disk = NoDoc
    /\ tasks = <<>>
    /\ pcMain = "idle"
    /\ runs = 0
    /\ outcome = "none"
    /\ prev = NoPrev

\* process_csv_file up to the submission of the fetch tasks: read the export,
\* write_to_excel, then update_excel_with_cve_info loads the document and
\* submits one getCVEInfo per data row
BeginRun(file) ==
    /\ pcMain = "idle"
    /\ runs < MaxRuns
    /\ csv' = file
    /\ prev' = IF Rerun(file) THEN [rerun |-> TRUE, cache |-> cache, disk |-> disk]
                ELSE NoPrev
    /\ disk' = write_to_excel(disk, cvedict(file))
    /\ tasks' = [i \in 1..Len(disk'.rows) |-> NewTask(cve_ids(disk'.rows)[i])]
    /\ pcMain' = "fetch"
    /\ UNCHANGED <<cache, runs, outcome>>

\* a worker takes a queued task and getCVEInfo tests the cache file
TaskStart(t) ==
    /\ pcMain = "fetch"
    /\ tasks[t].pc = "queued"
    /\ Cardinality(Running) < max_workers
    /\ tasks' = [tasks EXCEPT ![t] =
          IF CacheHit(cache, tasks[t].cve)
          THEN [@ EXCEPT !.pc = "done", !.result = "cached",
                         !.existed = isfile(cache, tasks[t].cve)]
          ELSE [@ EXCEPT !.pc = "request",
                         !.existed = isfile(cache, tasks[t].cve)]]
    /\ UNCHANGED <<csv, cache, disk, pcMain, runs, outcome, prev>>

\* requests.get and raise_for_status, then open(filename, mode="w")
TaskRequest(t) ==
    /\ pcMain = "fetch"
    /\ tasks[t].pc = "request"
    /\ \/ \* the request fails: RequestException
          /\ tasks' = [tasks EXCEPT ![t] = Failed([@ EXCEPT !.requests = @ + 1])]
          /\ UNCHANGED cache
       \/ \* a response arrives, open() raises IOError: logged, break
          /\ tasks' = [tasks EXCEPT ![t] =
                [@ EXCEPT !.requests = @ + 1, !.onlyErr = FALSE,
                          !.pc = "done", !.result = "ioerror"]]
          /\ UNCHANGED cache
       \/ \* a response arrives, open() creates or truncates the file
          /\ tasks' = [tasks EXCEPT ![t] =
                [@ EXCEPT !.requests = @ + 1, !.onlyErr = FALSE,
                          !.wrote = TRUE, !.pc = "dump"]]
          /\ cache' = [id \in DOMAIN cache \cup {tasks[t].cve} |->
                          IF id = tasks[t].cve THEN <<>> ELSE cache[id]]
    /\ UNCHANGED <<csv, disk, pcMain, runs, outcome, prev>>

\* json.dump(res.json(), f, indent=4) on the response body
TaskDump(t, body) ==
    /\ pcMain = "fetch"
    /\ tasks[t].pc = "dump"
    /\ \/ \* the body decodes and is written
          /\ body # InvalidBody
          /\ cache' = [cache EXCEPT ![tasks[t].cve] = body]
          /\ tasks' = [tasks EXCEPT ![t] = [@ EXCEPT !.pc = "done", !.result = "saved"]]
       \/ \* res.json() raises requests.JSONDecodeError, a RequestException
          /\ body = InvalidBody
          /\ tasks' = [tasks EXCEPT ![t] = Failed(@)]
          /\ UNCHANGED cache
       \/ \* res.json() raises a ValueError that leaves getCVEInfo
          /\ body = InvalidBody
          /\ tasks' = [tasks EXCEPT ![t] = [@ EXCEPT !.pc = "done", !.result = "raised"]]
          /\ UNCHANGED cache
       \/ \* the write raises IOError: logged, break
          /\ body # InvalidBody
          /\ tasks' = [tasks EXCEPT ![t] = [@ EXCEPT !.pc = "done", !.result = "ioerror"]]
          /\ UNCHANGED cache
    /\ UNCHANGED <<csv, disk, pcMain, runs, outcome, prev>>

\* past the pool: the loop over the rows, then wb.save; an exception leaves
\* update_excel_with_cve_info before the save and is logged by
\* process_csv_file
Merge ==
    /\ pcMain = "fetch"
    /\ AllFetchesResolved
    /\ LET m == MergeFrom(disk.rows, 1, cache)
       IN /\ disk' = IF m.raised THEN disk ELSE [exists |-> TRUE, rows |-> m.rows]
          /\ outcome' = IF m.raised THEN "aborted" ELSE "saved"
    /\ pcMain' = "idle"
    /\ runs' = runs + 1
    /\ tasks' = <<>>
    /\ UNCHANGED <<csv, cache, prev>>

Next ==
    \/ \E file \in CsvFiles : BeginRun(file)
    \/ \E t \in 1..Len(tasks) : TaskStart(t)
    \/ \E t \in 1..Len(tasks) : TaskRequest(t)
    \/ \E t \in 1..Len(tasks), body \in Bodies : TaskDump(t, body)
    \/ Merge

Spec == Init /\ [][Next]_vars

\* ================================================================== claims
TaskIds == 1..Len(tasks)
RowIds == 1..Len(disk.rows)
AfterRun == pcMain = "idle" /\ runs > 0

\* the cache file of row i holds a JSON record with a vulnerability entry
\* that the merge reads without an exception
HasRecord(i) ==
    /\ ~Skipped(disk.rows[i], cache)
    /\ ~RowRaises(disk.rows[i], cache)

MetricsOf(i) == Get(Get(cache[disk.rows[i].CVE][1].vulnerabilities[1], "cve", NoMetrics),
                    "metrics", NoMetrics)

\* the cache file of row i cannot be decoded, or lacks what the merge indexes
Malformed(i) ==
    /\ isfile(cache, disk.rows[i].CVE)
    /\ \/ Undecodable(cache[disk.rows[i].CVE])
       \/ RowRaises(disk.rows[i], cache)

\* C1: a getCVEInfo call that finds its cache file already present is a
\* no-op: it issues no request, never opens the file for writing, and ends
\* at once, whatever the service would have answered.
C1_CachedFetchIsNoOp ==
    \A t \in TaskIds :
        tasks[t].existed =>
            /\ tasks[t].requests = 0
            /\ ~tasks[t].wrote
            /\ tasks[t].pc = "done"

C1_Witness ==
    \E t \in TaskIds :
        /\ tasks[t].existed
        /\ tasks[t].result = "cached"
        /\ cache[tasks[t].cve] # <<>>

C3_MergeAfterBarrier ==
    [][(pcMain = "fetch" /\ pcMain' = "idle") =>
          \A t \in TaskIds : tasks[t].pc = "done"]_vars

C3_Witness ==
    /\ AfterRun
    /\ outcome = "saved"
    /\ Len(disk.rows) = 2
    /\ \A i \in RowIds : HasRecord(i) /\ disk.rows[i].BS["V31"] # None
    /\ disk.rows[1].CVE # disk.rows[2].CVE

\* C4 (as claimed): after the merge, every row whose cache entry yields no
\* base score for any version, a response with zero vulnerability entries
\* included, carries the highlight fill.
C4_NoScoreRowsHighlighted ==
    AfterRun =>
        \A i \in RowIds :
            ( /\ isfile(cache, disk.rows[i].CVE)
              /\ ~Undecodable(cache[disk.rows[i].CVE])
              /\ \/ Get(cache[disk.rows[i].CVE][1], "vulnerabilities", <<>>) = <<>>
                 \/ HasRecord(i) /\ DOMAIN MetricsOf(i) = {} )
            => disk.rows[i].fill

\* C5 (as claimed): after the merge, for every row with a cached record, the
\* base-score and vector cells of each version absent from the record hold
\* "N/A".
C5_AbsentVersionsHoldNA ==
    AfterRun =>
        \A i \in RowIds : \A l \in LabelSet :
            (HasRecord(i) /\ cvss_key(l) \notin DOMAIN MetricsOf(i)) =>
                /\ disk.rows[i].BS[l] = NA
                /\ disk.rows[i].Vector[l] = NA

\* the vector text without its scheme prefix "CVSS:<version>/"
RECURSIVE AfterSlash(_)
AfterSlash(v) == IF v = <<>> THEN <<>> ELSE IF Head(v) = "/" THEN Tail(v) ELSE AfterSlash(Tail(v))

SchemePrefixRemoved(v) ==
    IF StartsWith(v, <<"C", "V", "S", "S", ":">>) THEN AfterSlash(v) ELSE v

\* C6 (as claimed): after the merge, a row whose cached record has at least
\* one version present is not highlighted, and each present version's cells
\* hold the base score as text and the vector without its scheme prefix
\* ("CVSS:3.1/AV:N" is written as "AV:N").
C6_PresentVersionsWritten ==
    AfterRun =>
        \A i \in RowIds :
            (HasRecord(i) /\ DOMAIN MetricsOf(i) # {}) =>
                /\ ~disk.rows[i].fill
                /\ \A l \in LabelSet :
                      cvss_key(l) \in DOMAIN MetricsOf(i) =>
                          LET d == MetricsOf(i)[cvss_key(l)][1].cvssData
                          IN /\ disk.rows[i].BS[l] = Str(d.baseScore)
                             /\ disk.rows[i].Vector[l] = SchemePrefixRemoved(d.vectorString)

\* C7: a run that repeats the previous run (same export, a cache file for
\* every identifier of the document) leaves the document and the cache as
\* the previous run left them: the same rows in the same positions with the
\* same cells and highlights, and the same cache files.
C7_RerunIdempotent ==
    prev.rerun =>
        /\ cache = prev.cache
        /\ pcMain = "idle" => disk = prev.disk

C7_Witness ==
    /\ prev.rerun
    /\ pcMain = "idle"
    /\ runs = 2
    /\ outcome = "saved"
    /\ Len(disk.rows) = 2
    /\ \E i \in RowIds : disk.rows[i].fill
    /\ \E i \in RowIds : disk.rows[i].BS["V31"] # None

\* C8 (as claimed): a malformed cache entry for one row only makes that row
\* be skipped: the merge still processes the later rows and saves the
\* document.
C8_MalformedRowOnlySkipped ==
    AfterRun =>
        \A i \in RowIds : \A j \in RowIds :
            (i < j /\ Malformed(i) /\ HasRecord(j)) =>
                /\ outcome = "saved"
                /\ disk.rows[j] = MergeRow(disk.rows[j], cache)
                /\ \A l \in LabelSet :
                      cvss_key(l) \in DOMAIN MetricsOf(j) => disk.rows[j].BS[l] # None

\* C9 (as claimed): every cache file that exists, and that no getCVEInfo call
\* is in the middle of writing, holds a complete valid response.
C9_CacheFilesValid ==
    \A id \in DOMAIN cache :
        (\A t \in TaskIds : ~(tasks[t].cve = id /\ tasks[t].pc = "dump")) =>
            ~Undecodable(cache[id])

\* C10 (as claimed): during the fetch phase at most one worker passes the
\* existence check and opens a given identifier's cache file for writing.
C10_OneWriterPerFile ==
    \A t \in TaskIds : \A u \in TaskIds :
        (t # u /\ tasks[t].cve = tasks[u].cve) => ~(tasks[t].wrote /\ tasks[u].wrote)

====
